---- MODULE Spec2Model ----
(***************************************************************************)
(* Availability engines of api/services/BookingService.js:                 *)
(*   getAvailabilityPeriods  (range mode, sweep over signed deltas)        *)
(*   getAvailabilityDates    (date mode, grouping by date)                 *)
(*                                                                         *)
(* Dates are ISO-8601 strings in the source; _.sortBy compares them as     *)
(* strings and === compares them for equality.  For strings of one format  *)
(* that order is the chronological one, so a date is modelled as the       *)
(* integer number of days of its instant.  An absent argument (newBooking  *)
(* undefined, maxQuantity not a number) is a record whose flag is FALSE.   *)
(***************************************************************************)
EXTENDS Integers, Sequences, FiniteSets, TLC

VARIABLES pc, futureBookings, listingAvailabilities, newBooking, maxQuantity,
          isAvailable, availablePeriods, availableDates,
          listing, bookings, calls

vars == <<pc, futureBookings, listingAvailabilities, newBooking, maxQuantity,
          isAvailable, availablePeriods, availableDates,
          listing, bookings, calls>>

\* the arguments and results of one call of an engine
engineVars == <<futureBookings, listingAvailabilities, newBooking, maxQuantity,
                isAvailable, availablePeriods, availableDates>>

\* the listing, its persisted bookings and the createBooking calls in progress
bookingVars == <<listing, bookings, calls>>

(***************************************************************************)
(* Bounds of the model.                                                    *)
(***************************************************************************)
\* total number of reservations and declarations handed to one call
MaxRecords == 2
\* ceilings tried: 1..MaxCeiling, and no ceiling at all
MaxCeiling == 2
\* the instants of the model
Dates == {1, 2, 3}
\* the quantities of reservations, declarations and the candidate
Quantities == {1, 2}

\* moment(firstStep.date).subtract({ d: 1 }): one day, in days
Day == 1

(***************************************************************************)
(* Input shapes.                                                           *)
(***************************************************************************)
Undefined == [defined |-> FALSE, startDate |-> 0, endDate |-> 0, quantity |-> 0]

NotANumber == [isNumber |-> FALSE, value |-> 0]

Number(n) == [isNumber |-> TRUE, value |-> n]

\* a reservation of range mode: [startDate, endDate), startDate < endDate
Intervals ==
    { [startDate |-> s, endDate |-> e, quantity |-> q] :
        s \in Dates, e \in Dates, q \in Quantities }

PeriodBookings == { b \in Intervals : b.startDate < b.endDate }

PeriodAvailabilities ==
    { [startDate |-> b.startDate, endDate |-> b.endDate,
       quantity |-> b.quantity, available |-> a] :
        b \in PeriodBookings, a \in BOOLEAN }

\* the candidate of range mode: any pair of instants
PeriodCandidates ==
    { [defined |-> TRUE, startDate |-> b.startDate, endDate |-> b.endDate,
       quantity |-> b.quantity] : b \in Intervals }

\* date mode reads startDate and quantity only
DateMarks == { [startDate |-> d, quantity |-> q] : d \in Dates, q \in Quantities }

DateCandidates ==
    { [defined |-> TRUE, startDate |-> m.startDate, endDate |-> m.startDate,
       quantity |-> m.quantity] : m \in DateMarks }

Ceilings == {NotANumber} \cup { Number(n) : n \in 1..MaxCeiling }

SeqsUpTo(S, n) == UNION { [1..k -> S] : k \in 0..n }

(***************************************************************************)
(* getAvailabilityPeriods                                                  *)
(***************************************************************************)
\* lines 459-469: +quantity at startDate, -quantity at endDate
bookingSteps(booking) ==
    << [date |-> booking.startDate, delta |-> booking.quantity, newPeriod |-> "none"],
       [date |-> booking.endDate, delta |-> -booking.quantity, newPeriod |-> "none"] >>

\* line 472: if available, one extra place so -1
startSign(listingAvailability) ==
    IF listingAvailability.available THEN -1 ELSE 1

\* lines 471-484
availabilitySteps(listingAvailability) ==
    LET s == startSign(listingAvailability)
        e == -1 * s
    IN  << [date |-> listingAvailability.startDate,
            delta |-> s * listingAvailability.quantity, newPeriod |-> "none"],
           [date |-> listingAvailability.endDate,
            delta |-> e * listingAvailability.quantity, newPeriod |-> "none"] >>

\* lines 459-469: _.forEach(futureBookings, ...)
RECURSIVE allBookingSteps(_)
allBookingSteps(fb) ==
    IF fb = <<>> THEN <<>> ELSE bookingSteps(Head(fb)) \o allBookingSteps(Tail(fb))

\* lines 471-484: _.forEach(listingAvailabilities, ...)
RECURSIVE allAvailabilitySteps(_)
allAvailabilitySteps(la) ==
    IF la = <<>> THEN <<>>
    ELSE availabilitySteps(Head(la)) \o allAvailabilitySteps(Tail(la))

\* lines 486-498
newBookingSteps(nb) ==
    IF nb.defined
    THEN << [date |-> nb.startDate, delta |-> nb.quantity, newPeriod |-> "start"],
            [date |-> nb.endDate, delta |-> -nb.quantity, newPeriod |-> "end"] >>
    ELSE <<>>

\* lines 457-498: the deltas in push order
dateSteps(fb, la, nb) ==
    allBookingSteps(fb) \o allAvailabilitySteps(la) \o newBookingSteps(nb)

\* the place of x in a list sorted by date: behind every element that is not later
RECURSIVE insertByDate(_, _)
insertByDate(sorted, x) ==
    IF sorted = <<>> THEN <<x>>
    ELSE IF Head(sorted).date <= x.date
         THEN <<Head(sorted)>> \o insertByDate(Tail(sorted), x)
         ELSE <<x>> \o sorted

RECURSIVE sortByDateFrom(_, _)
sortByDateFrom(sorted, rest) ==
    IF rest = <<>> THEN sorted
    ELSE sortByDateFrom(insertByDate(sorted, Head(rest)), Tail(rest))

\* line 500 and 597: _.sortBy(list, 'date'), a stable sort
sortBy(steps) == sortByDateFrom(<<>>, steps)

exceedsOffByOne(nb, maxQ, quantity) ==
    nb.defined /\ maxQ.isNumber /\ quantity > maxQ.value + 1

\* line 516: newBooking && typeof maxQuantity === 'number' && currStep.quantity > maxQuantity
exceeds(nb, maxQ, quantity) ==
    nb.defined /\ maxQ.isNumber /\ quantity > maxQ.value

coalesceKeepFirst(periods, currStep) ==
    IF periods # <<>> /\ currStep.date = periods[Len(periods)].date
    THEN periods
    ELSE Append(periods, currStep)

coalesceNever(periods, currStep) == Append(periods, currStep)

\* lines 524-529: oldStep is the point pushed last
coalesce(periods, currStep) ==
    IF periods # <<>> /\ currStep.date = periods[Len(periods)].date
    THEN [periods EXCEPT ![Len(periods)].quantity = currStep.quantity]
    ELSE Append(periods, currStep)

sweepStepNoLatch(acc, step, nb, maxQ) ==
    LET quantity == acc.quantity + step.delta
        currStep == [date |-> step.date, quantity |-> quantity,
                     newPeriod |-> step.newPeriod]
    IN  [quantity |-> quantity,
         isAvailable |-> ~exceeds(nb, maxQ, quantity),
         availablePeriods |-> coalesce(acc.availablePeriods, currStep)]

\* lines 508-530: the body of the sweep, acc = [quantity, isAvailable, availablePeriods]
sweepStep(acc, step, nb, maxQ) ==
    LET quantity == acc.quantity + step.delta
        currStep == [date |-> step.date, quantity |-> quantity,
                     newPeriod |-> step.newPeriod]
    IN  [quantity |-> quantity,
         isAvailable |-> acc.isAvailable /\ ~exceeds(nb, maxQ, quantity),
         availablePeriods |-> coalesce(acc.availablePeriods, currStep)]

RECURSIVE sweep(_, _, _, _)
sweep(acc, steps, nb, maxQ) ==
    IF steps = <<>> THEN acc
    ELSE sweep(sweepStep(acc, Head(steps), nb, maxQ), Tail(steps), nb, maxQ)

anchorSameDay(periods) ==
    IF periods # <<>>
    THEN <<[date |-> periods[1].date, quantity |-> 0, newPeriod |-> "none"]>>
         \o periods
    ELSE periods

\* lines 532-538
unshiftAnchor(periods) ==
    IF periods # <<>>
    THEN <<[date |-> periods[1].date - Day, quantity |-> 0, newPeriod |-> "none"]>>
         \o periods
    ELSE periods

\* lines 456-544
getAvailabilityPeriods(fb, la, nb, maxQ) ==
    LET sortedSteps == sortBy(dateSteps(fb, la, nb))
        end == sweep([quantity |-> 0, isAvailable |-> TRUE, availablePeriods |-> <<>>],
                     sortedSteps, nb, maxQ)
    IN  [isAvailable |-> end.isAvailable,
         availablePeriods |-> unshiftAnchor(end.availablePeriods)]

(***************************************************************************)
(* getAvailabilityDates                                                    *)
(***************************************************************************)
\* the index of the bucket of a date in the buckets kept in insertion order, 0 if none
bucketIndex(buckets, date) ==
    IF \E i \in 1..Len(buckets) : buckets[i].date = date
    THEN CHOOSE i \in 1..Len(buckets) : buckets[i].date = date
    ELSE 0

addQuantityFresh(buckets, date, quantity) ==
    LET i == bucketIndex(buckets, date)
    IN  IF i = 0
        THEN Append(buckets, [date |-> date, quantity |-> quantity, selected |-> FALSE])
        ELSE [buckets EXCEPT ![i].quantity = quantity]

\* lines 570-579 and 583-592: create the bucket on first occurrence, then add
addQuantity(buckets, date, quantity) ==
    LET i == bucketIndex(buckets, date)
    IN  IF i = 0
        THEN Append(buckets, [date |-> date, quantity |-> quantity, selected |-> FALSE])
        ELSE [buckets EXCEPT ![i].quantity = @ + quantity]

RECURSIVE groupBookings(_, _)
groupBookings(buckets, fb) ==
    IF fb = <<>> THEN buckets
    ELSE groupBookings(addQuantity(buckets, Head(fb).startDate, Head(fb).quantity),
                       Tail(fb))

\* lines 582-594
addNewBooking(buckets, nb) ==
    IF nb.defined
    THEN LET added == addQuantity(buckets, nb.startDate, nb.quantity)
             i == bucketIndex(added, nb.startDate)
         IN  [added EXCEPT ![i].selected = TRUE]
    ELSE buckets

indexByFirst(la, date) ==
    LET hits == { i \in 1..Len(la) : la[i].startDate = date }
    IN  IF hits = {} THEN [found |-> FALSE, quantity |-> 0]
        ELSE [found |-> TRUE,
              quantity |-> la[CHOOSE i \in hits : \A j \in hits : j >= i].quantity]

\* lines 602 and 608: _.indexBy(listingAvailabilities, 'startDate')[date], last one wins
indexBy(la, date) ==
    LET hits == { i \in 1..Len(la) : la[i].startDate = date }
    IN  IF hits = {} THEN [found |-> FALSE, quantity |-> 0]
        ELSE [found |-> TRUE,
              quantity |-> la[CHOOSE i \in hits : \A j \in hits : j <= i].quantity]

currentMaxQuantityAnyCeiling(la, nb, maxQ) ==
    IF nb.defined
    THEN LET listingAvailability == indexBy(la, nb.startDate)
         IN  IF listingAvailability.found
             THEN Number(listingAvailability.quantity)
             ELSE maxQ
    ELSE NotANumber

\* lines 604-612
currentMaxQuantity(la, nb, maxQ) ==
    IF nb.defined /\ maxQ.isNumber
    THEN LET listingAvailability == indexBy(la, nb.startDate)
         IN  IF listingAvailability.found
             THEN Number(listingAvailability.quantity)
             ELSE maxQ
    ELSE NotANumber

\* lines 566-623
getAvailabilityDates(fb, la, nb, maxQ) ==
    LET buckets == addNewBooking(groupBookings(<<>>, fb), nb)
        ceiling == currentMaxQuantity(la, nb, maxQ)
    IN  [isAvailable |->
            ~(nb.defined /\ ceiling.isNumber
              /\ buckets[bucketIndex(buckets, nb.startDate)].quantity > ceiling.value),
         availableDates |-> sortBy(buckets)]

(***************************************************************************)
(* createBooking: the listing, the Booking table and the calls in progress. *)
(***************************************************************************)
\* the users calling createBooking at the same time on the one listing
Callers == {1, 2}

NoListing ==
    [TIME |-> "NONE", AVAILABILITY |-> "NONE", timeAvailability |-> "NONE",
     maxQuantity |-> NotANumber, availabilities |-> <<>>]

NoCall ==
    [pc |-> "idle", startDate |-> 0, endDate |-> 0, quantity |-> 0,
     futureBookings |-> <<>>, verdict |-> "none", error |-> "none",
     bookingQuantity |-> 0]

(***************************************************************************)
(* The calls of the engines.                                               *)
(***************************************************************************)
Init ==
    /\ listing = NoListing
    /\ bookings = <<>>
    /\ calls = [c \in Callers |-> NoCall]
    /\ pc \in {"periods", "dates"}
    /\ IF pc = "periods"
       THEN /\ futureBookings \in SeqsUpTo(PeriodBookings, MaxRecords)
            /\ listingAvailabilities
                  \in SeqsUpTo(PeriodAvailabilities, MaxRecords - Len(futureBookings))
            /\ newBooking \in {Undefined} \cup PeriodCandidates
       ELSE /\ futureBookings \in SeqsUpTo(DateMarks, MaxRecords)
            /\ listingAvailabilities
                  \in SeqsUpTo(DateMarks, MaxRecords - Len(futureBookings))
            /\ newBooking \in {Undefined} \cup DateCandidates
    /\ maxQuantity \in Ceilings
    /\ isAvailable = TRUE
    /\ availablePeriods = <<>>
    /\ availableDates = <<>>

CallGetAvailabilityPeriods ==
    /\ pc = "periods"
    /\ LET res == getAvailabilityPeriods(futureBookings, listingAvailabilities,
                                         newBooking, maxQuantity)
       IN  /\ isAvailable' = res.isAvailable
           /\ availablePeriods' = res.availablePeriods
    /\ pc' = "periods_returned"
    /\ UNCHANGED <<futureBookings, listingAvailabilities, newBooking, maxQuantity,
                   availableDates>>
    /\ UNCHANGED bookingVars

CallGetAvailabilityDates ==
    /\ pc = "dates"
    /\ LET res == getAvailabilityDates(futureBookings, listingAvailabilities,
                                       newBooking, maxQuantity)
       IN  /\ isAvailable' = res.isAvailable
           /\ availableDates' = res.availableDates
    /\ pc' = "dates_returned"
    /\ UNCHANGED <<futureBookings, listingAvailabilities, newBooking, maxQuantity,
                   availablePeriods>>
    /\ UNCHANGED bookingVars

Next == CallGetAvailabilityPeriods \/ CallGetAvailabilityDates

Spec == Init /\ [][Next]_vars

(***************************************************************************)
(* createBooking, one action per stretch between two awaits.               *)
(***************************************************************************)
\* the listing types and listings of the model
Listings ==
    { [TIME |-> t, AVAILABILITY |-> a, timeAvailability |-> ta,
       maxQuantity |-> m, availabilities |-> la] :
        t \in {"TIME_FLEXIBLE", "TIME_PREDEFINED", "NONE"},
        a \in {"NONE", "UNIQUE", "STOCK"},
        ta \in {"NONE", "UNAVAILABLE"},
        m \in Ceilings,
        la \in {<<>>,
                <<[startDate |-> 1, endDate |-> 2, quantity |-> 1,
                   available |-> FALSE]>>} }

\* a call: startDate, nbTimeUnits (here as the endDate it gives) and quantity
NewCalls ==
    { [pc |-> "createBooking", startDate |-> b.startDate, endDate |-> b.endDate,
       quantity |-> b.quantity, futureBookings |-> <<>>, verdict |-> "none",
       error |-> "none", bookingQuantity |-> 0] : b \in PeriodBookings }

InitBooking ==
    /\ pc = "createBooking"
    /\ futureBookings = <<>>
    /\ listingAvailabilities = <<>>
    /\ newBooking = Undefined
    /\ maxQuantity = NotANumber
    /\ isAvailable = TRUE
    /\ availablePeriods = <<>>
    /\ availableDates = <<>>
    /\ listing \in Listings
    /\ bookings = <<>>
    /\ calls \in [Callers -> NewCalls]

\* lines 261 and 268: maxQuantity < quantity, false when maxQuantity is no number
lessThan(maxQ, quantity) == maxQ.isNumber /\ maxQ.value < quantity

\* lines 36-87: the listing, its type and the dates are loaded and validated; what
\* they are checked against is outside the model, so either outcome may happen
Validate(c) ==
    /\ calls[c].pc = "createBooking"
    /\ \E ok \in BOOLEAN :
          calls' = [calls EXCEPT
                      ![c].pc = IF ok THEN "setBookingAvailability" ELSE "failed",
                      ![c].error = IF ok THEN "none" ELSE "validation"]
    /\ UNCHANGED <<pc, engineVars, listing, bookings>>

\* the engine runs for this listing type: lines 266-267 and 296
engineApplies(l) ==
    /\ l.AVAILABILITY \notin {"NONE", "UNIQUE"}
    /\ l.TIME \in {"TIME_FLEXIBLE", "TIME_PREDEFINED"}

\* Listing.getMaxQuantity(listing, listingType): a number, or no limit
getMaxQuantity(l) == l.maxQuantity

\* lines 258-271 and 296, 320: setBookingAvailability up to its first await
afterQuantityCheck(l, call) ==
    IF l.AVAILABILITY = "NONE"
    THEN [call EXCEPT !.bookingQuantity = 1, !.pc = "setBookingPrices"]
    ELSE IF l.AVAILABILITY = "UNIQUE"
    THEN IF lessThan(getMaxQuantity(l), call.quantity)
         THEN [call EXCEPT !.pc = "failed",
                           !.error = "400 Do not have enough quantity"]
         ELSE [call EXCEPT !.bookingQuantity = 1, !.pc = "setBookingPrices"]
    ELSE IF l.TIME = "TIME_FLEXIBLE"
    THEN IF lessThan(getMaxQuantity(l), call.quantity)
         THEN [call EXCEPT !.pc = "failed",
                           !.error = "400 Do not have enough quantity"]
         ELSE [call EXCEPT !.pc = "getFutureBookings"]
    ELSE IF l.TIME = "TIME_PREDEFINED"
    THEN [call EXCEPT !.pc = "getFutureBookings"]
    ELSE [call EXCEPT !.bookingQuantity = call.quantity, !.pc = "setBookingPrices"]

SetBookingAvailability(c) ==
    /\ calls[c].pc = "setBookingAvailability"
    /\ calls' = [calls EXCEPT ![c] = afterQuantityCheck(listing, calls[c])]
    /\ UNCHANGED <<pc, engineVars, listing, bookings>>

\* Listing.getFutureBookings: the bookings persisted for the listing; all those of
\* the model are future ones
getFutureBookings(persisted) == persisted

\* lines 272 and 297: await Listing.getFutureBookings(listing.id, now)
GetFutureBookings(c) ==
    /\ calls[c].pc = "getFutureBookings"
    /\ calls' = [calls EXCEPT ![c].futureBookings = getFutureBookings(bookings),
                              ![c].pc = "findListingAvailabilities"]
    /\ UNCHANGED <<pc, engineVars, listing, bookings>>

\* lines 274-280 and 299-303: the declarations handed to the engine
foundAvailabilities(l) ==
    IF l.TIME = "TIME_FLEXIBLE"
       /\ l.timeAvailability \notin {"AVAILABLE", "UNAVAILABLE"}
    THEN <<>>
    ELSE l.availabilities

\* lines 282-291 and 305-313: the engine of the listing type on the snapshot
availabilityOf(l, call) ==
    IF l.TIME = "TIME_FLEXIBLE"
    THEN getAvailabilityPeriods(
            call.futureBookings, foundAvailabilities(l),
            [defined |-> TRUE, startDate |-> call.startDate,
             endDate |-> call.endDate, quantity |-> call.quantity],
            getMaxQuantity(l)).isAvailable
    ELSE getAvailabilityDates(
            call.futureBookings, foundAvailabilities(l),
            [defined |-> TRUE, startDate |-> call.startDate,
             endDate |-> call.startDate, quantity |-> call.quantity],
            getMaxQuantity(l)).isAvailable

afterAvailabilityIgnored(call, available) ==
    [call EXCEPT !.verdict = IF available THEN "available" ELSE "unavailable",
                 !.bookingQuantity = call.quantity,
                 !.pc = "setBookingPrices"]

\* lines 293-295, 315-317 and 320: throw createError(400, 'Not available')
afterAvailability(call, available) ==
    IF available
    THEN [call EXCEPT !.verdict = "available",
                      !.bookingQuantity = call.quantity,
                      !.pc = "setBookingPrices"]
    ELSE [call EXCEPT !.verdict = "unavailable",
                      !.pc = "failed",
                      !.error = "400 Not available"]

\* lines 274-295 and 299-317: the declarations are found, the engine decides
CheckAvailability(c) ==
    /\ calls[c].pc = "findListingAvailabilities"
    /\ calls' = [calls EXCEPT
                   ![c] = afterAvailability(calls[c],
                                            availabilityOf(listing, calls[c]))]
    /\ UNCHANGED <<pc, engineVars, listing, bookings>>

\* the row Booking.create writes: lines 70-79, 234-238 and 320
bookingAttrs(l, c, call) ==
    [takerId |-> c, startDate |-> call.startDate,
     endDate |-> IF l.TIME = "TIME_FLEXIBLE" THEN call.endDate ELSE call.startDate,
     quantity |-> call.bookingQuantity]

\* Booking.create: one more row, no condition on the rows already there
create(persisted, attrs) == Append(persisted, attrs)

\* lines 99-117: prices, snapshot, then await Booking.create(bookingAttrs)
BookingCreate(c) ==
    /\ calls[c].pc = "setBookingPrices"
    /\ bookings' = create(bookings, bookingAttrs(listing, c, calls[c]))
    /\ calls' = [calls EXCEPT ![c].pc = "returned"]
    /\ UNCHANGED <<pc, engineVars, listing>>

NextBooking ==
    \E c \in Callers :
       \/ Validate(c)
       \/ SetBookingAvailability(c)
       \/ GetFutureBookings(c)
       \/ CheckAvailability(c)
       \/ BookingCreate(c)

SpecBooking == InitBooking /\ [][NextBooking]_vars

(***************************************************************************)
(* What the claims speak of, stated from the inputs alone.                 *)
(***************************************************************************)
RECURSIVE SumSeq(_)
SumSeq(s) == IF s = <<>> THEN 0 ELSE Head(s) + SumSeq(Tail(s))

Returned == pc \in {"periods_returned", "dates_returned"}

Covers(r, t) == r.startDate <= t /\ t < r.endDate

\* the quantity in use at instant t, the candidate included, intervals half-open
Occupancy(t) ==
    SumSeq([i \in 1..Len(futureBookings) |->
              IF Covers(futureBookings[i], t) THEN futureBookings[i].quantity ELSE 0])
    + SumSeq([i \in 1..Len(listingAvailabilities) |->
              IF Covers(listingAvailabilities[i], t)
              THEN IF listingAvailabilities[i].available
                   THEN -listingAvailabilities[i].quantity
                   ELSE listingAvailabilities[i].quantity
              ELSE 0])
    + (IF newBooking.defined /\ Covers(newBooking, t) THEN newBooking.quantity ELSE 0)

ProperIntervals ==
    /\ \A i \in 1..Len(futureBookings) :
          futureBookings[i].startDate < futureBookings[i].endDate
    /\ \A i \in 1..Len(listingAvailabilities) :
          listingAvailabilities[i].startDate < listingAvailabilities[i].endDate
    /\ newBooking.startDate < newBooking.endDate

\* the signed deltas of one interval dated at or before t: sign*quantity at its
\* startDate, -sign*quantity at its endDate
DeltasUpTo(r, sign, t) ==
    (IF r.startDate <= t THEN sign * r.quantity ELSE 0)
    + (IF r.endDate <= t THEN -sign * r.quantity ELSE 0)

DeltaSumUpTo(t) ==
    SumSeq([i \in 1..Len(futureBookings) |-> DeltasUpTo(futureBookings[i], 1, t)])
    + SumSeq([i \in 1..Len(listingAvailabilities) |->
                DeltasUpTo(listingAvailabilities[i],
                           IF listingAvailabilities[i].available THEN -1 ELSE 1, t)])
    + (IF newBooking.defined THEN DeltasUpTo(newBooking, 1, t) ELSE 0)

\* the instants at which some input has an edge
EventDates ==
    { futureBookings[i].startDate : i \in 1..Len(futureBookings) }
    \cup { futureBookings[i].endDate : i \in 1..Len(futureBookings) }
    \cup { listingAvailabilities[i].startDate : i \in 1..Len(listingAvailabilities) }
    \cup { listingAvailabilities[i].endDate : i \in 1..Len(listingAvailabilities) }
    \cup (IF newBooking.defined
          THEN {newBooking.startDate, newBooking.endDate} ELSE {})

\* the running total read after the i-th pushed delta has been applied: the deltas
\* of earlier instants, and those of the same instant pushed no later
RunningTotalAfter(steps, i) ==
    SumSeq([j \in 1..Len(steps) |->
              IF \/ steps[j].date < steps[i].date
                 \/ (steps[j].date = steps[i].date /\ j <= i)
              THEN steps[j].delta ELSE 0])

Reverse(s) == [i \in 1..Len(s) |-> s[Len(s) + 1 - i]]

(***************************************************************************)
(* Range mode.                                                             *)
(***************************************************************************)
\* C1: range mode never admits an overbooking: with a candidate, a numeric
\* maxQuantity and intervals with startDate < endDate, isAvailable = true implies
\* that the occupancy (candidate included) is <= maxQuantity at every instant of
\* [newBooking.startDate, newBooking.endDate).
C1_NoOverbooking ==
    (/\ pc = "periods_returned"
     /\ newBooking.defined
     /\ maxQuantity.isNumber
     /\ ProperIntervals
     /\ isAvailable)
    => \A t \in Dates :
          Covers(newBooking, t) => Occupancy(t) <= maxQuantity.value

\* C1 witness: a candidate admitted on top of a reservation and a declaration that
\* cover it, the ceiling being reached exactly
C1_Witness ==
    /\ pc = "periods_returned"
    /\ newBooking.defined /\ maxQuantity.isNumber /\ ProperIntervals /\ isAvailable
    /\ futureBookings # <<>> /\ listingAvailabilities # <<>>
    /\ \E t \in Dates :
          /\ Covers(newBooking, t)
          /\ Covers(futureBookings[1], t)
          /\ Covers(listingAvailabilities[1], t)
          /\ Occupancy(t) = maxQuantity.value

\* C2 as stated: with a candidate, a numeric maxQuantity and intervals with
\* startDate < endDate, isAvailable is true iff the running quantity exceeds
\* maxQuantity at no point of the sweep dated at or after the candidate's startDate;
\* totals strictly before the candidate's startDate do not affect the verdict.
C2_Original ==
    (pc = "periods_returned" /\ newBooking.defined /\ maxQuantity.isNumber
     /\ ProperIntervals)
    => LET steps == dateSteps(futureBookings, listingAvailabilities, newBooking)
       IN  isAvailable <=>
              \A i \in 1..Len(steps) :
                 steps[i].date >= newBooking.startDate
                    => RunningTotalAfter(steps, i) <= maxQuantity.value

\* C2 amended: with a candidate and a numeric maxQuantity, isAvailable is true iff
\* the running total read after each single delta of the sweep (deltas in date
\* order, those of one instant in push order: reservations, declarations, candidate)
\* never exceeds maxQuantity, at every instant of the timeline, those strictly
\* before the candidate's startDate included.
C2_VerdictIsEveryStep ==
    (pc = "periods_returned" /\ newBooking.defined /\ maxQuantity.isNumber)
    => LET steps == dateSteps(futureBookings, listingAvailabilities, newBooking)
       IN  isAvailable <=>
              \A i \in 1..Len(steps) :
                 RunningTotalAfter(steps, i) <= maxQuantity.value

\* C2 witness: a candidate refused for an excess that lies wholly before its
\* startDate, while a later step is back under the ceiling
C2_Witness ==
    /\ pc = "periods_returned"
    /\ newBooking.defined /\ maxQuantity.isNumber /\ ~isAvailable
    /\ newBooking.startDate < newBooking.endDate
    /\ \A t \in Dates :
          t >= newBooking.startDate => DeltaSumUpTo(t) <= maxQuantity.value
    /\ \E t \in Dates :
          t < newBooking.startDate /\ DeltaSumUpTo(t) > maxQuantity.value

\* C3 as stated (intervals with startDate < endDate): the threshold check reads the total only after all deltas of an
\* instant are applied: isAvailable is false only if the coalesced total of some
\* timeline point exceeds maxQuantity, and the verdict is the same for every input
\* order of the reservations and of the declarations.
C3_ReadsCoalescedTotal ==
    (pc = "periods_returned" /\ newBooking.defined /\ maxQuantity.isNumber
     /\ ProperIntervals)
    => /\ ~isAvailable =>
             \E i \in 2..Len(availablePeriods) :
                availablePeriods[i].quantity > maxQuantity.value
       /\ isAvailable =
             getAvailabilityPeriods(Reverse(futureBookings),
                                    Reverse(listingAvailabilities),
                                    newBooking, maxQuantity).isAvailable

\* C6: every timeline point but the anchor carries the sum of all signed deltas
\* dated at or before its instant.
C6_PointIsFinalTotal ==
    pc = "periods_returned"
    => \A i \in 2..Len(availablePeriods) :
          availablePeriods[i].quantity = DeltaSumUpTo(availablePeriods[i].date)

\* C6 witness: two reservations with one startDate make one point carrying both
C6_Witness ==
    /\ pc = "periods_returned"
    /\ Len(futureBookings) = 2
    /\ futureBookings[1].startDate = futureBookings[2].startDate
    /\ futureBookings[1].endDate # futureBookings[2].endDate
    /\ newBooking.defined
    /\ \E i \in 2..Len(availablePeriods) :
          /\ availablePeriods[i].date = futureBookings[1].startDate
          /\ availablePeriods[i].quantity
                >= futureBookings[1].quantity + futureBookings[2].quantity

\* C7: the timeline is strictly increasing in date, the anchor first.
C7_StrictlyIncreasing ==
    pc = "periods_returned"
    => \A i \in 1..Len(availablePeriods) : \A j \in 1..Len(availablePeriods) :
          i < j => availablePeriods[i].date < availablePeriods[j].date

\* C7 witness: six edges on two instants only
C7_Witness ==
    /\ pc = "periods_returned"
    /\ Len(futureBookings) + Len(listingAvailabilities) = 2
    /\ newBooking.defined
    /\ Cardinality(EventDates) = 2
    /\ Len(availablePeriods) = 3

\* C8 as stated: with a candidate (startDate < endDate), the timeline has a point at newBooking.startDate
\* tagged 'start' and a point at newBooking.endDate tagged 'end', also when another
\* edge falls on the same instant.
C8_TagsPreserved ==
    (pc = "periods_returned" /\ newBooking.defined /\ ProperIntervals)
    => /\ \E i \in 1..Len(availablePeriods) :
             /\ availablePeriods[i].date = newBooking.startDate
             /\ availablePeriods[i].newPeriod = "start"
       /\ \E i \in 1..Len(availablePeriods) :
             /\ availablePeriods[i].date = newBooking.endDate
             /\ availablePeriods[i].newPeriod = "end"

\* C9: the timeline is empty exactly when there is no input at all; otherwise its
\* first entry is an anchor of quantity 0 dated one day before the earliest event
\* date, and the anchor is the only point added to one point per event date.
C9_Anchor ==
    pc = "periods_returned"
    => /\ availablePeriods = <<>> <=>
             (futureBookings = <<>> /\ listingAvailabilities = <<>>
              /\ ~newBooking.defined)
       /\ availablePeriods # <<>> =>
             /\ availablePeriods[1].quantity = 0
             /\ \A d \in EventDates : availablePeriods[1].date + Day <= d
             /\ availablePeriods[1].date + Day \in EventDates
             /\ Len(availablePeriods) = Cardinality(EventDates) + 1

\* C9 witness: a candidate alone, startDate # endDate: anchor, start, end
C9_Witness ==
    /\ pc = "periods_returned"
    /\ futureBookings = <<>> /\ listingAvailabilities = <<>>
    /\ newBooking.defined /\ newBooking.startDate # newBooking.endDate
    /\ Len(availablePeriods) = 3

(***************************************************************************)
(* Both modes.                                                             *)
(***************************************************************************)
\* C4: in both engines isAvailable is true whenever there is no candidate or
\* maxQuantity is not a number, whatever the reservations and declarations.
C4_NoCandidateOrNoCeiling ==
    (Returned /\ (~newBooking.defined \/ ~maxQuantity.isNumber)) => isAvailable

\* C4 witness: date mode, no ceiling, a declaration on the candidate's date whose
\* quantity is below the bucket total
C4_Witness ==
    /\ pc = "dates_returned"
    /\ newBooking.defined /\ ~maxQuantity.isNumber
    /\ \E i \in 1..Len(listingAvailabilities) :
          /\ listingAvailabilities[i].startDate = newBooking.startDate
          /\ listingAvailabilities[i].quantity < newBooking.quantity
    /\ isAvailable

(***************************************************************************)
(* Date mode.                                                              *)
(***************************************************************************)
\* the quantity booked on a date, the candidate included
BucketTotal(d) ==
    SumSeq([i \in 1..Len(futureBookings) |->
              IF futureBookings[i].startDate = d
              THEN futureBookings[i].quantity ELSE 0])
    + (IF newBooking.defined /\ newBooking.startDate = d
       THEN newBooking.quantity ELSE 0)

DeclarationsOn(d) ==
    { i \in 1..Len(listingAvailabilities) : listingAvailabilities[i].startDate = d }

\* the quantity of the last declaration on the date, maxQuantity when there is none
EffectiveCeiling(d) ==
    IF DeclarationsOn(d) = {} THEN maxQuantity.value
    ELSE listingAvailabilities[
            CHOOSE i \in DeclarationsOn(d) : \A j \in DeclarationsOn(d) : j <= i
         ].quantity

\* C5: date mode, with a candidate and a numeric maxQuantity: isAvailable is false
\* iff the bucket total of the candidate's date is strictly greater than the
\* effective ceiling (the last declaration on that date, else maxQuantity).
C5_DateVerdict ==
    (pc = "dates_returned" /\ newBooking.defined /\ maxQuantity.isNumber)
    => (~isAvailable <=>
          BucketTotal(newBooking.startDate) > EffectiveCeiling(newBooking.startDate))

\* C5 witness: two declarations on the candidate's date, the first one would admit
\* the candidate, the last one refuses it, and so would not maxQuantity
C5_Witness ==
    /\ pc = "dates_returned"
    /\ newBooking.defined /\ maxQuantity.isNumber
    /\ Len(listingAvailabilities) = 2
    /\ listingAvailabilities[1].startDate = newBooking.startDate
    /\ listingAvailabilities[2].startDate = newBooking.startDate
    /\ listingAvailabilities[1].quantity >= BucketTotal(newBooking.startDate)
    /\ listingAvailabilities[2].quantity < BucketTotal(newBooking.startDate)
    /\ maxQuantity.value >= BucketTotal(newBooking.startDate)
    /\ ~isAvailable

BookedDates ==
    { futureBookings[i].startDate : i \in 1..Len(futureBookings) }
    \cup (IF newBooking.defined THEN {newBooking.startDate} ELSE {})

\* C10: availableDates has exactly one bucket per date of the reservations and the
\* candidate, sorted by date ascending, each carrying the quantity booked on its
\* date; the bucket of the candidate's date, and no other, is selected.
C10_Buckets ==
    pc = "dates_returned"
    => /\ Len(availableDates) = Cardinality(BookedDates)
       /\ \A i \in 1..Len(availableDates) :
             /\ availableDates[i].date \in BookedDates
             /\ availableDates[i].quantity = BucketTotal(availableDates[i].date)
             /\ availableDates[i].selected <=>
                   (newBooking.defined
                    /\ availableDates[i].date = newBooking.startDate)
       /\ \A i \in 1..Len(availableDates) : \A j \in 1..Len(availableDates) :
             i < j => availableDates[i].date < availableDates[j].date

\* C10 witness: two reservations given latest first, the candidate on the later
\* date: two buckets in date order, the second one summed and selected
C10_Witness ==
    /\ pc = "dates_returned"
    /\ Len(futureBookings) = 2
    /\ futureBookings[1].startDate > futureBookings[2].startDate
    /\ newBooking.defined
    /\ newBooking.startDate = futureBookings[1].startDate
    /\ Len(availableDates) = 2
    /\ availableDates[2].selected
    /\ availableDates[2].quantity = futureBookings[1].quantity + newBooking.quantity

(***************************************************************************)
(* createBooking.                                                          *)
(***************************************************************************)
\* the quantity of the persisted bookings in use at instant t: those covering t
\* for ranges, those of date t for predefined dates
PersistedAt(t) ==
    SumSeq([i \in 1..Len(bookings) |->
              IF IF listing.TIME = "TIME_FLEXIBLE"
                 THEN Covers(bookings[i], t)
                 ELSE bookings[i].startDate = t
              THEN bookings[i].quantity ELSE 0])

CreatedBy(c) == \E i \in 1..Len(bookings) : bookings[i].takerId = c

\* C11 as stated: reading the snapshot and persisting the admitted booking are
\* atomic per listing: with a capacity-tracked listing type, a numeric maxQuantity
\* (and no declaration moving the ceiling), the persisted bookings never jointly
\* exceed maxQuantity at any instant, whatever the interleaving of the calls.
C11_NoJointOverbooking ==
    (/\ pc = "createBooking"
     /\ listing.AVAILABILITY = "STOCK"
     /\ listing.TIME \in {"TIME_FLEXIBLE", "TIME_PREDEFINED"}
     /\ listing.maxQuantity.isNumber
     /\ listing.availabilities = <<>>)
    => \A t \in Dates : PersistedAt(t) <= listing.maxQuantity.value

\* C12: for a listing type whose AVAILABILITY is neither NONE nor UNIQUE and whose
\* TIME has an engine, a call whose engine returned isAvailable = false has failed
\* with 400 'Not available' and has created no booking, and a booking exists only
\* for a call whose engine was evaluated before and returned true.
C12_CreateOnlyAfterAdmission ==
    (pc = "createBooking" /\ engineApplies(listing))
    => \A c \in Callers :
          /\ calls[c].verdict = "unavailable"
                => /\ calls[c].pc = "failed"
                   /\ calls[c].error = "400 Not available"
                   /\ ~CreatedBy(c)
          /\ CreatedBy(c) => calls[c].verdict = "available"
          /\ calls[c].pc = "setBookingPrices" => calls[c].verdict = "available"

\* C12 witness: one call has persisted its booking, the other one, which read the
\* bookings after that, was refused by the engine and has failed
C12_Witness ==
    /\ pc = "createBooking" /\ engineApplies(listing)
    /\ \E c \in Callers : \E d \in Callers :
          /\ c # d
          /\ CreatedBy(c) /\ calls[c].verdict = "available"
          /\ calls[d].futureBookings # <<>>
          /\ calls[d].verdict = "unavailable"
          /\ calls[d].error = "400 Not available"
          /\ ~CreatedBy(d)
====
